---- MODULE Spec2Model ----
(***************************************************************************)
(* State-machine model of the usage-metering and license-entitlement core  *)
(* of resume-bullet-generator: the generate, verify-license and webhook    *)
(* route handlers, the Redis usage ledger / license registry they call,    *)
(* and the LemonSqueezy license validator.                                 *)
(*                                                                         *)
(* Encoding conventions                                                    *)
(*  - null / undefined / an absent header or field is the string None;     *)
(*    an absent number is NoNum.                                           *)
(*  - a Redis key "usage:<id>" is the element <id> of DOMAIN usage, and    *)
(*    likewise for the other key prefixes: keys of different prefixes can  *)
(*    never be equal, keys of the same prefix are equal iff their suffixes *)
(*    are.                                                                 *)
(*  - a status string is [word, case]: its lower-cased letters and its     *)
(*    capitalisation; two strings are equal iff both fields are.           *)
(*  - a decimal string is the sequence of its digits.                      *)
(***************************************************************************)
EXTENDS Integers, Sequences, FiniteSets, TLC

VARIABLES
  now,            \* the clock (Date.now(), the store's clock), in seconds
  rateLimitMap,   \* generate/route.ts: in-process Map ip -> {count, resetTime}
  usage,          \* Redis "usage:<identifier>" -> integer
  usageExpiry,    \* Redis expiry instant (s) of the usage keys that carry a TTL
  dailyStats,     \* Redis "stats:daily:<date>" -> integer
  statsExpiry,    \* Redis expiry instant (s) of the stats keys that carry a TTL
  license,        \* Redis "license:<licenseKey>" -> LicenseData
  emailLicense,   \* Redis "email:<email>" -> licenseKey
  orderLicense,   \* Redis "order:<orderId>" -> licenseKey
  nreq,           \* number of requests handled so far
  ticks,          \* number of clock advances so far
  granted,        \* history: 200 responses of generate, per identifier charged
  inflight,       \* incrementUsage calls: caller -> the call and its position
  completed,      \* history: incrementUsage calls completed, per identifier
  admitted,       \* history: instants of the requests the rate limiter let
                  \* through in the last window's length of time, per ip
  last            \* the request being answered and its response; Idle if none

vars == <<now, rateLimitMap, usage, usageExpiry, dailyStats, statsExpiry,
          license, emailLicense, orderLicense, nreq, ticks, granted,
          inflight, completed, admitted, last>>

\* The concurrent callers of incrementUsage and what they have completed.
ledgerCalls == <<inflight, completed>>

\* Everything the key-value store holds.
redisState == <<usage, usageExpiry, dailyStats, statsExpiry,
                license, emailLicense, orderLicense>>

\* The usage counters (values and TTLs) and the license registry.
counters == <<usage, usageExpiry>>
registry == <<license, emailLicense, orderLicense>>

None == "none"
NoNum == 0 - 1

(***************************************************************************)
(* Bounds of the model.                                                    *)
(***************************************************************************)
MaxRequests == 2      \* Spec, SpecWebhook: requests handled per run
MaxTicks == 1         \* clock advances per run
MaxGranted == 51      \* SpecCap: 200 responses counted per identifier
MaxCalls == 4         \* SpecLedger: incrementUsage calls started per run
MaxLedgerTicks == 2   \* SpecLedger, SpecRace: clock advances per run
MaxRaceRequests == 4  \* SpecRace: requests started per run
MaxUsed == 51         \* SpecRegistry: generationsUsed of a license record
MaxRateTicks == 2     \* SpecRate: clock advances per run

(***************************************************************************)
(* Program constants.                                                      *)
(***************************************************************************)
FREE_TIER_maxGenerations == 3
FREE_TIER_ttlSeconds == 86400
PAID_TIERS_basic_generations == 50
LIFETIME_REMAINING == 999
RATE_LIMIT_maxRequests == 10
RATE_LIMIT_windowMs == 60 * 1000
STATS_TTL_SECONDS == 86400 * 90
SECONDS_PER_DAY == 24 * 60 * 60
MAX_BULLETS == 10
MIN_BULLET_LENGTH == 20
MIN_JOB_DESC_LENGTH == 50
MAX_JOB_DESC_LENGTH == 8000
MIN_EXPERIENCE_LENGTH == 20
MAX_EXPERIENCE_LENGTH == 4000

\* Function update that may extend the domain (Redis SET on a key).
Put(f, k, v) == [x \in (DOMAIN f) \cup {k} |-> IF x = k THEN v ELSE f[x]]
\* Function restricted to the keys not in ks (Redis key removal).
Drop(f, ks) == [x \in (DOMAIN f) \ ks |-> f[x]]
EmptyMap == [x \in {} |-> 0]

Max(a, b) == IF a >= b THEN a ELSE b


(***************************************************************************)
(* Key-value store adapter and usage ledger (lib/redis.ts).                *)
(* A store call either completes or throws before taking effect; `fault`   *)
(* names the call of the operation that throws ("none": no call throws).   *)
(***************************************************************************)

\* redis.incr(key): creates the key at 1 if absent; an existing TTL is kept.
RedisIncr(u, key) == Put(u, key, (IF key \in DOMAIN u THEN u[key] ELSE 0) + 1)

\* redis.expire(key, seconds): sets the expiry instant of an existing key.
RedisExpire(u, e, key, seconds, t) ==
  IF key \in DOMAIN u THEN Put(e, key, t + seconds) ELSE e

\* Keys whose expiry instant has passed at time t.
Expired(e, t) == {k \in DOMAIN e : e[k] <= t}

\* getUsageCount: `count ?? 0`.
GetUsageCount(u, identifier) ==
  IF identifier \in DOMAIN u THEN u[identifier] ELSE 0

\* Variant: every free-tier increment sets the TTL again.
NeedsExpiry_EveryIncrement(isPaid, newCount) == ~isPaid

\* if (!isPaid && newCount === 1)
NeedsExpiry(isPaid, newCount) == ~isPaid /\ newCount = 1

\* incrementUsage(identifier, isPaid): INCR, then EXPIRE only when the counter
\* was just created by a free-tier increment.
IncrementUsage(u, e, identifier, isPaid, t, fault) ==
  IF fault = "incr"
  THEN [usage |-> u, usageExpiry |-> e, threw |-> TRUE, newCount |-> NoNum]
  ELSE LET u2 == RedisIncr(u, identifier)
           newCount == u2[identifier]
       IN IF NeedsExpiry(isPaid, newCount)
          THEN IF fault = "expire"
               THEN [usage |-> u2, usageExpiry |-> e, threw |-> TRUE,
                     newCount |-> newCount]
               ELSE [usage |-> u2,
                     usageExpiry |-> RedisExpire(u2, e, identifier,
                                                 FREE_TIER_ttlSeconds, t),
                     threw |-> FALSE, newCount |-> newCount]
          ELSE [usage |-> u2, usageExpiry |-> e, threw |-> FALSE,
                newCount |-> newCount]

\* new Date().toISOString().split("T")[0]: the UTC day of the instant t.
DateOf(t) == t \div SECONDS_PER_DAY

\* trackDailyGeneration(date): INCR then EXPIRE (90 days) of the day's counter.
TrackDailyGeneration(d, se, t, fault) ==
  IF fault = "incr"
  THEN [dailyStats |-> d, statsExpiry |-> se, threw |-> TRUE]
  ELSE LET d2 == RedisIncr(d, DateOf(t))
       IN IF fault = "expire"
          THEN [dailyStats |-> d2, statsExpiry |-> se, threw |-> TRUE]
          ELSE [dailyStats |-> d2,
                statsExpiry |-> RedisExpire(d2, se, DateOf(t),
                                            STATS_TTL_SECONDS, t),
                threw |-> FALSE]

(***************************************************************************)
(* License validator (lib/lemonsqueezy-license.ts).                        *)
(***************************************************************************)

\* Environment configuration: the two variant ids, as decimal strings.
ENV_VARIANT_BASIC == <<1, 0, 1>>
ENV_VARIANT_LIFETIME == <<2, 0, 2>>

\* parseInt(s, 10) of a string of decimal digits.
RECURSIVE ParseInt(_)
ParseInt(s) ==
  IF Len(s) = 0 THEN 0
  ELSE 10 * ParseInt(SubSeq(s, 1, Len(s) - 1)) + s[Len(s)]

\* String(n) of a non-negative integer: its decimal digits.
RECURSIVE ToDigits(_)
ToDigits(n) == IF n < 10 THEN <<n>> ELSE Append(ToDigits(n \div 10), n % 10)

Str(word, case) == [word |-> word, case |-> case]
NoStatus == Str("", "lower")      \* a missing or empty status field (falsy)

\* Variant: the status is compared as it was received.
ToLowerCase_AsReceived(s) == s

\* String.prototype.toLowerCase().
ToLowerCase(s) == [s EXCEPT !.case = "lower"]

\* `a || b` on strings: the empty / missing string is falsy.
OrElse(s, dflt) == IF s = NoStatus THEN dflt ELSE s

GENERIC_VALIDATE_ERROR == "Failed to validate license. Please try again."

\* getTierFromVariantId(variantId): variantId is a number, or None if absent.
GetTierFromVariantId(variantId) ==
  IF variantId = NoNum THEN None
  ELSE IF Len(ENV_VARIANT_BASIC) > 0 /\ variantId = ParseInt(ENV_VARIANT_BASIC)
       THEN "basic"
  ELSE IF Len(ENV_VARIANT_LIFETIME) > 0
          /\ variantId = ParseInt(ENV_VARIANT_LIFETIME)
       THEN "lifetime"
  ELSE None

\* Variant: the catch block reports the error it caught.
ValidateLicenseKey_RawError(api) ==
  IF api.threw
  THEN [isValid |-> FALSE, tier |-> None, email |-> None,
        status |-> Str("error", "lower"), testMode |-> FALSE,
        error |-> api.raw]
  ELSE IF ~api.valid
  THEN [isValid |-> FALSE, tier |-> None, email |-> None,
        status |-> OrElse(api.status, Str("invalid", "lower")),
        testMode |-> api.test_mode,
        error |-> IF api.error = None THEN "Invalid license key" ELSE api.error]
  ELSE [isValid |-> TRUE, tier |-> GetTierFromVariantId(api.variant_id),
        email |-> api.customer_email,
        status |-> OrElse(api.status, Str("active", "lower")),
        testMode |-> api.test_mode,
        error |-> None]

\* validateLicenseKey(licenseKey): `api` is what the call to the licensing
\* API did: it threw (fetch or response.json()), or it returned `data`.
ValidateLicenseKey(api) ==
  IF api.threw
  THEN [isValid |-> FALSE, tier |-> None, email |-> None,
        status |-> Str("error", "lower"), testMode |-> FALSE,
        error |-> GENERIC_VALIDATE_ERROR]
  ELSE IF ~api.valid
  THEN [isValid |-> FALSE, tier |-> None, email |-> None,
        status |-> OrElse(api.status, Str("invalid", "lower")),
        testMode |-> api.test_mode,
        error |-> IF api.error = None THEN "Invalid license key" ELSE api.error]
  ELSE [isValid |-> TRUE, tier |-> GetTierFromVariantId(api.variant_id),
        email |-> api.customer_email,
        status |-> OrElse(api.status, Str("active", "lower")),
        testMode |-> api.test_mode,
        error |-> None]

NoLic == [isValid |-> FALSE, tier |-> None, email |-> None, status |-> NoStatus,
          testMode |-> FALSE, error |-> None]

\* invalidStatuses.includes(status.toLowerCase())
InvalidStatuses ==
  {Str("expired", "lower"), Str("disabled", "lower"), Str("revoked", "lower")}

IsInvalidStatus(status) == ToLowerCase(status) \in InvalidStatuses

(***************************************************************************)
(* Request validation (lib/validation.ts, lib/openai.ts) and the parsing   *)
(* of the generated text (lib/prompts.ts).                                 *)
(* A text field is [raw, trimmed]: its length as sent and after trim().    *)
(* A license-key field is [present, text, padded]: whether the field was   *)
(* sent, the key without surrounding white space, and whether it was sent  *)
(* with some.                                                              *)
(***************************************************************************)

\* val?.trim() || undefined
TrimKey(field) == IF ~field.present \/ field.text = "" THEN None ELSE field.text

\* validateRequest(generateRequestSchema, body): zod checks the raw lengths,
\* then trims.
ValidateRequest(body) ==
  IF /\ body.jobDescription.raw >= MIN_JOB_DESC_LENGTH
     /\ body.jobDescription.raw <= MAX_JOB_DESC_LENGTH
     /\ body.experience.raw >= MIN_EXPERIENCE_LENGTH
     /\ body.experience.raw <= MAX_EXPERIENCE_LENGTH
  THEN [success |-> TRUE,
        jobDescription |-> body.jobDescription.trimmed,
        experience |-> body.experience.trimmed,
        licenseKey |-> TrimKey(body.licenseKey)]
  ELSE [success |-> FALSE, jobDescription |-> 0, experience |-> 0,
        licenseKey |-> None]

\* validateInput(jobDescription, experience) on the trimmed lengths.
ValidateInput(jobDescription, experience) ==
  /\ ~(jobDescription < MIN_JOB_DESC_LENGTH)
  /\ ~(experience < MIN_EXPERIENCE_LENGTH)
  /\ ~(jobDescription > MAX_JOB_DESC_LENGTH)
  /\ ~(experience > MAX_EXPERIENCE_LENGTH)

\* parseBulletPoints(response): a line of the response is [len, meta]: its
\* length after trimming and prefix removal, and whether it is meta-commentary
\* ("here are", "based on", "bullet point").
RECURSIVE KeepBullets(_)
KeepBullets(lines) ==
  IF Len(lines) = 0 THEN <<>>
  ELSE IF Head(lines).len > 0 /\ ~Head(lines).meta
          /\ Head(lines).len >= MIN_BULLET_LENGTH
       THEN <<Head(lines)>> \o KeepBullets(Tail(lines))
       ELSE KeepBullets(Tail(lines))

ParseBulletPoints(response) ==
  LET kept == KeepBullets(response)
  IN SubSeq(kept, 1, IF Len(kept) < MAX_BULLETS THEN Len(kept) ELSE MAX_BULLETS)

(***************************************************************************)
(* POST /api/generate (app/api/generate/route.ts).                         *)
(***************************************************************************)

\* getClientIp(): headers is [forwardedFor, realIp, vercel]; forwardedFor is
\* the sequence of the header's comma-separated, trimmed parts, empty when
\* the header is absent or empty; the other two are None when absent or empty.
GetClientIp(headers) ==
  IF Len(headers.forwardedFor) > 0 THEN headers.forwardedFor[1]
  ELSE IF headers.realIp # None THEN headers.realIp
  ELSE IF headers.vercel # None THEN headers.vercel
  ELSE "unknown"

\* Date.now(): milliseconds.
DateNow(t) == t * 1000

\* isRateLimited(ip): the verdict and the map it leaves.
\* Variant: the request that finds the count at the maximum is let through.
IsRateLimited_Inclusive(map, ip, t) ==
  IF ip \notin DOMAIN map \/ DateNow(t) > map[ip].resetTime
  THEN [limited |-> FALSE,
        map |-> Put(map, ip, [count |-> 1,
                              resetTime |-> DateNow(t) + RATE_LIMIT_windowMs])]
  ELSE IF map[ip].count > RATE_LIMIT_maxRequests
  THEN [limited |-> TRUE, map |-> map]
  ELSE [limited |-> FALSE,
        map |-> [map EXCEPT ![ip].count = map[ip].count + 1]]

IsRateLimited(map, ip, t) ==
  IF ip \notin DOMAIN map \/ DateNow(t) > map[ip].resetTime
  THEN [limited |-> FALSE,
        map |-> Put(map, ip, [count |-> 1,
                              resetTime |-> DateNow(t) + RATE_LIMIT_windowMs])]
  ELSE IF map[ip].count >= RATE_LIMIT_maxRequests
  THEN [limited |-> TRUE, map |-> map]
  ELSE [limited |-> FALSE,
        map |-> [map EXCEPT ![ip].count = map[ip].count + 1]]

\* ERRORS and createErrorResponse; `arg` is the status interpolated into the
\* message, if any.
ErrorResponse(status, code, message, arg) ==
  [status |-> status, code |-> code, message |-> message, arg |-> arg,
   remaining |-> NoNum, tier |-> None, bullets |-> 0]

RATE_LIMITED == ErrorResponse(429, "RATE_LIMITED",
  "Too many requests. Please wait a moment and try again.", NoStatus)
INVALID_LICENSE == ErrorResponse(402, "INVALID_LICENSE",
  "Invalid or expired license key.", NoStatus)
LIMIT_REACHED == ErrorResponse(402, "LIMIT_REACHED",
  "You've reached your free generation limit. Upgrade to continue.", NoStatus)
GENERATION_FAILED == ErrorResponse(500, "GENERATION_FAILED",
  "Failed to generate bullet points. Please try again.", NoStatus)
INTERNAL_ERROR == ErrorResponse(500, "INTERNAL_ERROR",
  "An unexpected error occurred. Please try again.", NoStatus)

\* What a request that has gone no further than the rate limiter leaves.
GenerateStart(map, u, e, ip) ==
  [ip |-> ip, licenseKey |-> None, stage |-> "rate_limit",
   lic |-> NoLic, used |-> NoNum, genCalled |-> FALSE, track |-> FALSE,
   rateLimitMap |-> map, usage |-> u, usageExpiry |-> e,
   resp |-> RATE_LIMITED]

\* Variant: the usage update comes before the generation's outcome is looked at.
OnGenerationFailure_Charged(called, charged) ==
  [charged EXCEPT !.resp = GENERATION_FAILED]

\* Lines 216-219 and 224-227: a failed generation returns before the usage
\* update; `called` is the request before it, `charged` after it.
OnGenerationFailure(called, charged) ==
  [called EXCEPT !.resp = GENERATION_FAILED]

\* Lines 234-238: `remaining` of a paid request once its usage is recorded.
RemainingAfterCharge(tier, remaining) ==
  IF tier = "lifetime" THEN LIFETIME_REMAINING ELSE Max(0, remaining - 1)

\* Variant: the usage is always tracked by the client IP.
UsageIdentifier_AlwaysIp(isPaid, licenseKey, clientIp) == clientIp

\* Lines 230-242: the counter that is incremented, by license key for a paid
\* request and by `identifier`, the client IP, for a free one.
UsageIdentifier(isPaid, licenseKey, clientIp) ==
  IF isPaid THEN licenseKey ELSE clientIp

\* Lines 204-263: generation, then the usage update, then the response.
\* `o` is the request as the entitlement decision left it.
GenerateAndCharge(o, tier, remaining, t, gen, fault) ==
  LET called == [o EXCEPT !.genCalled = TRUE, !.stage = "generation"]
      bullets == ParseBulletPoints(gen.content)
      isPaid == o.licenseKey # None /\ tier # "free"
      inc == IncrementUsage(o.usage, o.usageExpiry,
                            UsageIdentifier(isPaid, o.licenseKey, o.ip),
                            isPaid, t, fault)
      charged == [called EXCEPT !.usage = inc.usage,
                                !.usageExpiry = inc.usageExpiry,
                                !.stage = "charge"]
      after == IF isPaid THEN RemainingAfterCharge(tier, remaining)
               ELSE remaining
  IN IF gen.threw THEN OnGenerationFailure(called, charged)
     ELSE IF Len(bullets) = 0 THEN OnGenerationFailure(called, charged)
     ELSE IF inc.threw THEN [charged EXCEPT !.resp = INTERNAL_ERROR]
     ELSE [charged EXCEPT
             !.stage = "done", !.track = TRUE,
             !.resp = [status |-> 200, code |-> "OK", message |-> "",
                       arg |-> NoStatus,
                       remaining |-> IF tier = "lifetime"
                                     THEN LIFETIME_REMAINING ELSE after,
                       tier |-> tier, bullets |-> Len(bullets)]]

\* Variant: only the validity flag is looked at.
LicenseRejected_FlagOnly(licenseStatus) == ~licenseStatus.isValid

\* Line 156: the validator's answer does not entitle the key.
LicenseRejected(licenseStatus) ==
  ~licenseStatus.isValid \/ licenseStatus.tier = None

\* Variant: every paid tier is capped.
IsCappedTier_EveryTier(tier) == TRUE

\* Line 176: the tier whose usage is read and capped.
IsCappedTier(tier) == tier = "basic"

\* Variant: the cap is off by one.
BasicRemaining_OffByOne(used) == Max(0, PAID_TIERS_basic_generations + 1 - used)

\* Line 179: what is left of the basic cap.
BasicRemaining(used) == Max(0, PAID_TIERS_basic_generations - used)

\* Variant: the comparison is strict.
FreeLimitReached_Strict(usageCount) == usageCount > FREE_TIER_maxGenerations

\* Line 197: the free tier's cap is reached.
FreeLimitReached(usageCount) == usageCount >= FREE_TIER_maxGenerations

\* Line 201: what is left of the free cap, the current request deducted.
FreeRemaining(usageCount) == FREE_TIER_maxGenerations - usageCount - 1

\* Variant: a usage read that fails counts as no usage and the request goes
\* on; `failed` is the request stopped by the failure, `asZero` the request
\* continued with a count of 0.
OnReadFailure_CountZero(failed, asZero) ==
  [asZero EXCEPT !.stage = "entitlement"]

\* Lines 177, 195 and 260-263: getUsageCount is awaited inside the try, so a
\* read that throws ends the request in the catch.
OnReadFailure(failed, asZero) == failed

\* Lines 147-202: the entitlement decision, then GenerateAndCharge.
Entitlement(o, api, t, gen, fault) ==
  IF o.licenseKey # None
  THEN LET licenseStatus == ValidateLicenseKey(api)
           o1 == [o EXCEPT !.lic = licenseStatus, !.stage = "license"]
       IN IF LicenseRejected(licenseStatus)
          THEN [o1 EXCEPT !.resp = INVALID_LICENSE]
          ELSE IF IsInvalidStatus(licenseStatus.status)
          THEN [o1 EXCEPT !.resp =
                  ErrorResponse(402, "INVALID_LICENSE", "License is ",
                                licenseStatus.status)]
          ELSE IF IsCappedTier(licenseStatus.tier)
          THEN IF fault = "get"
               THEN OnReadFailure(
                      [o1 EXCEPT !.stage = "entitlement",
                                 !.resp = INTERNAL_ERROR],
                      GenerateAndCharge(
                        [o1 EXCEPT !.used = 0, !.stage = "entitlement"],
                        licenseStatus.tier, BasicRemaining(0), t, gen,
                        "none"))
               ELSE LET used == GetUsageCount(o.usage, o.licenseKey)
                        remaining == BasicRemaining(used)
                        o2 == [o1 EXCEPT !.used = used,
                                         !.stage = "entitlement"]
                    IN IF remaining <= 0
                       THEN [o2 EXCEPT !.resp =
                               ErrorResponse(402, "LIMIT_REACHED",
  "You've used all 50 generations. Upgrade to Lifetime for unlimited access.",
                                             NoStatus)]
                       ELSE GenerateAndCharge(o2, licenseStatus.tier,
                                              remaining, t, gen, fault)
          ELSE GenerateAndCharge([o1 EXCEPT !.stage = "entitlement"],
                                 licenseStatus.tier, LIFETIME_REMAINING, t,
                                 gen, fault)
  ELSE IF fault = "get"
       THEN OnReadFailure(
              [o EXCEPT !.stage = "entitlement", !.resp = INTERNAL_ERROR],
              GenerateAndCharge([o EXCEPT !.used = 0,
                                          !.stage = "entitlement"],
                                "free", FreeRemaining(0), t, gen, "none"))
       ELSE LET usageCount == GetUsageCount(o.usage, o.ip)
                o2 == [o EXCEPT !.used = usageCount, !.stage = "entitlement"]
            IN IF FreeLimitReached(usageCount)
               THEN [o2 EXCEPT !.resp = LIMIT_REACHED]
               ELSE GenerateAndCharge(o2, "free", FreeRemaining(usageCount),
                                      t, gen, fault)

\* POST: lines 101-145, then Entitlement.  body.json tells whether
\* request.json() parsed the body.
POST_generate(map, u, e, t, headers, body, api, gen, fault) ==
  LET clientIp == GetClientIp(headers)
      rl == IsRateLimited(map, clientIp, t)
      o == GenerateStart(rl.map, u, e, clientIp)
      bad(message) == [o EXCEPT !.stage = "validation",
                         !.resp = ErrorResponse(400, "VALIDATION_ERROR",
                                                message, NoStatus)]
  IN IF rl.limited THEN o
     ELSE IF ~body.json THEN bad("Invalid JSON in request body")
     ELSE LET validation == ValidateRequest(body)
          IN IF ~validation.success THEN bad("Invalid request")
             ELSE IF ~ValidateInput(validation.jobDescription,
                                    validation.experience)
             THEN bad("Invalid input")
             ELSE Entitlement([o EXCEPT !.licenseKey = validation.licenseKey],
                              api, t, gen, fault)

(***************************************************************************)
(* POST /api/verify-license (app/api/verify-license/route.ts).             *)
(***************************************************************************)

VerifyResponse(status, isValid, tier, remaining, email, error, arg) ==
  [status |-> status, isValid |-> isValid, tier |-> tier,
   remaining |-> remaining, email |-> email, error |-> error, arg |-> arg]

VerifyError(status, error, arg) ==
  VerifyResponse(status, FALSE, None, NoNum, None, error, arg)

\* POST: body.json tells whether request.json() parsed; body.licenseKey is the
\* license-key field.  The result carries the validator's answer for the
\* record of the request.
POST_verify(u, body, api, fault) ==
  LET field == body.licenseKey
      validation == ValidateLicenseKey(api)
      out(lic, resp) == [lic |-> lic, resp |-> resp]
  IN IF ~body.json
     THEN out(NoLic, VerifyError(400, "Invalid JSON in request body", NoStatus))
     ELSE IF ~field.present \/ (field.text = "" /\ ~field.padded)
     THEN out(NoLic, VerifyError(400, "License key is required", NoStatus))
     ELSE IF ~validation.isValid
     THEN out(validation,
              VerifyError(400, IF validation.error = None
                               THEN "Invalid license key"
                               ELSE validation.error, NoStatus))
     ELSE IF IsInvalidStatus(validation.status)
     THEN out(validation, VerifyError(400, "License is ", validation.status))
     ELSE IF validation.status = Str("inactive", "lower")
             /\ ~validation.testMode
     THEN out(validation, VerifyError(400, "License is inactive", NoStatus))
     ELSE IF validation.tier = "basic" /\ fault = "get"
     THEN out(validation, VerifyError(500, "Verification failed", NoStatus))
     ELSE out(validation,
              VerifyResponse(200, TRUE, validation.tier,
                IF validation.tier = "basic"
                THEN Max(0, PAID_TIERS_basic_generations
                            - GetUsageCount(u, field.text))
                ELSE LIFETIME_REMAINING,
                validation.email, None, NoStatus))

(***************************************************************************)
(* Inputs of the generate and verify-license requests.                     *)
(***************************************************************************)

ClientIp == "203.0.113.7"
LicenseKeyK == "38b1460a-5104-4067-a91d-77b872934d51"

Hdr(xff, realIp, vercel) ==
  [forwardedFor |-> xff, realIp |-> realIp, vercel |-> vercel]

\* Request headers: a proxy chain, a client that sends a license key as its
\* forwarded address, each fallback header alone, and none.
HdrPlain == Hdr(<<ClientIp>>, None, None)
HdrKeyAsIp == Hdr(<<LicenseKeyK, ClientIp>>, None, None)
Headers ==
  {HdrPlain, HdrKeyAsIp, Hdr(<<>>, ClientIp, LicenseKeyK),
   Hdr(<<>>, None, ClientIp), Hdr(<<>>, None, None)}

Text(raw, trimmed) == [raw |-> raw, trimmed |-> trimmed]
KeyField(present, text, padded) ==
  [present |-> present, text |-> text, padded |-> padded]
NoKeyField == KeyField(FALSE, "", FALSE)

GenBody(jd, ex, key) ==
  [json |-> TRUE, jobDescription |-> jd, experience |-> ex, licenseKey |-> key]
GoodJd == Text(MIN_JOB_DESC_LENGTH, MIN_JOB_DESC_LENGTH)
GoodEx == Text(MAX_EXPERIENCE_LENGTH, MAX_EXPERIENCE_LENGTH)
NotJson == [json |-> FALSE, jobDescription |-> GoodJd, experience |-> GoodEx,
            licenseKey |-> NoKeyField]

\* Bodies rejected by validation: not JSON, too long for the schema, too
\* short once trimmed.
InvalidBodies ==
  {NotJson,
   GenBody(Text(MAX_JOB_DESC_LENGTH + 1, MAX_JOB_DESC_LENGTH), GoodEx,
           KeyField(TRUE, LicenseKeyK, FALSE)),
   GenBody(GoodJd, Text(MIN_EXPERIENCE_LENGTH, MIN_EXPERIENCE_LENGTH - 1),
           NoKeyField)}
\* Valid bodies without a license key (absent, or blank).
FreeBodies ==
  {GenBody(GoodJd, GoodEx, NoKeyField),
   GenBody(GoodJd, GoodEx, KeyField(TRUE, "", TRUE))}
\* Valid bodies with a license key.
KeyedBodies ==
  {GenBody(GoodJd, GoodEx, KeyField(TRUE, LicenseKeyK, FALSE)),
   GenBody(GoodJd, GoodEx, KeyField(TRUE, LicenseKeyK, TRUE))}

VARIANT_OTHER == ParseInt(<<3, 0, 3>>)

ApiThrew(raw) ==
  [threw |-> TRUE, raw |-> raw, valid |-> FALSE, status |-> NoStatus,
   variant_id |-> NoNum, test_mode |-> FALSE, customer_email |-> None,
   error |-> None]
ApiData(valid, variant, status, testMode, error) ==
  [threw |-> FALSE, raw |-> "", valid |-> valid, status |-> status,
   variant_id |-> variant, test_mode |-> testMode,
   customer_email |-> "buyer@example.com", error |-> error]
ApiUnused == ApiThrew("")

\* What the licensing API may answer.
ApiResponses ==
  {ApiThrew("ECONNRESET"), ApiThrew("Unexpected token < in JSON")}
  \cup {ApiData(FALSE, NoNum, NoStatus, FALSE, "license_key not found."),
        ApiData(FALSE, ParseInt(ENV_VARIANT_BASIC), Str("expired", "lower"),
                FALSE, None)}
  \cup {ApiData(TRUE, ParseInt(ENV_VARIANT_BASIC), st, FALSE, None) :
          st \in {NoStatus, Str("active", "lower"), Str("inactive", "lower"),
                  Str("expired", "upper"), Str("disabled", "mixed"),
                  Str("revoked", "lower")}}
  \cup {ApiData(TRUE, ParseInt(ENV_VARIANT_BASIC), Str("inactive", "lower"),
                TRUE, None)}
  \cup {ApiData(TRUE, ParseInt(ENV_VARIANT_LIFETIME), st, FALSE, None) :
          st \in {Str("active", "lower"), Str("revoked", "mixed"),
                  Str("expired", "lower")}}
  \cup {ApiData(TRUE, VARIANT_OTHER, st, FALSE, None) :
          st \in {Str("active", "lower"), Str("disabled", "upper")}}
  \cup {ApiData(TRUE, NoNum, Str("active", "lower"), FALSE, None)}

Line(len, meta) == [len |-> len, meta |-> meta]
GenThrew == [threw |-> TRUE, content |-> <<>>]
GenUnused == [threw |-> FALSE, content |-> <<>>]
GenText(lines) == [threw |-> FALSE, content |-> lines]
GenOk == GenText(<<Line(MIN_BULLET_LENGTH, FALSE)>>)
\* A response with no usable line: too short, empty, meta-commentary.
GenZero ==
  GenText(<<Line(MIN_BULLET_LENGTH - 1, FALSE), Line(0, FALSE),
            Line(MIN_BULLET_LENGTH, TRUE)>>)
GenMany == GenText([i \in 1..(MAX_BULLETS + 1) |-> Line(MIN_BULLET_LENGTH, FALSE)])

\* The text generation's outcome with the store call that throws, if any: a
\* store call after the generation is reached only when the generation
\* succeeded.
GenFaults ==
  {<<GenThrew, "none">>, <<GenZero, "none">>, <<GenOk, "none">>,
   <<GenMany, "none">>, <<GenOk, "get">>, <<GenOk, "incr">>,
   <<GenOk, "expire">>}

\* The inputs of a generate request: headers, body, the licensing API's
\* answer, the generation's outcome, the failing store call.  An oracle that
\* the body makes unreachable is not varied.
GenerateInputs ==
  {<<h, b, ApiUnused, GenOk, "none">> : h \in Headers, b \in InvalidBodies}
  \cup {<<h, b, ApiUnused, gf[1], gf[2]>> :
          h \in Headers, b \in FreeBodies, gf \in GenFaults}
  \cup {<<h, b, a, gf[1], gf[2]>> :
          h \in {HdrPlain}, b \in KeyedBodies, a \in ApiResponses,
          gf \in GenFaults}

VerifyBody(json, key) == [json |-> json, licenseKey |-> key]
VerifyInputs ==
  {<<VerifyBody(FALSE, NoKeyField), ApiUnused, "none">>,
   <<VerifyBody(TRUE, NoKeyField), ApiUnused, "none">>,
   <<VerifyBody(TRUE, KeyField(TRUE, "", FALSE)), ApiUnused, "none">>}
  \cup {<<VerifyBody(TRUE, KeyField(TRUE, LicenseKeyK, TRUE)), a, f>> :
          a \in ApiResponses, f \in {"none", "get"}}

TrackFaults == {"none", "incr", "expire"}

(***************************************************************************)
(* Webhook ingestion (lib/lemonsqueezy.ts, app/api/webhook/route.ts) and   *)
(* the license registry (lib/redis.ts).                                    *)
(* A hex signature string is [len, mac]: its length and the (key, message) *)
(* pair whose HMAC-SHA256 it spells out; two signatures are the same       *)
(* string iff both fields are equal.                                       *)
(***************************************************************************)

WEBHOOK_SECRET == "whsec_configured"
HEX_DIGEST_LENGTH == 64

\* crypto.createHmac("sha256", secret).update(payload).digest("hex")
HmacSha256Hex(secret, payload) ==
  [len |-> HEX_DIGEST_LENGTH, mac |-> <<secret, payload>>]

\* Variant: only the lengths of the two hex strings are compared.
VerifyWebhookSignature_LengthOnly(payload, signature) ==
  IF WEBHOOK_SECRET = "" THEN FALSE
  ELSE signature.len = HmacSha256Hex(WEBHOOK_SECRET, payload).len

\* verifyWebhookSignature(payload, signature): timingSafeEqual throws on
\* buffers of different length, which the catch turns into false.
VerifyWebhookSignature(payload, signature) ==
  IF WEBHOOK_SECRET = "" THEN FALSE
  ELSE LET digest == HmacSha256Hex(WEBHOOK_SECRET, payload)
       IN IF signature.len # digest.len THEN FALSE
          ELSE signature = digest

\* getTierFromVariant(variantId): String(variantId) against the environment's
\* strings; a missing variant id is the string "undefined".
GetTierFromVariant(variantId) ==
  IF variantId = NoNum THEN None
  ELSE IF ToDigits(variantId) = ENV_VARIANT_BASIC THEN "basic"
  ELSE IF ToDigits(variantId) = ENV_VARIANT_LIFETIME THEN "lifetime"
  ELSE None

\* parseWebhookPayload(rawBody): null unless the body is JSON with
\* meta.event_name and data.id.
ParseWebhookPayload(rawBody) ==
  rawBody.json /\ rawBody.event_name # None /\ rawBody.id # None

\* Variant: the license record and the email index only, no order index.
CreateLicense_NoOrderIndex(lic, em, ord, licenseKey, data, fault) ==
  LET licenseData == [tier |-> data.tier, email |-> data.email,
                      purchasedAt |-> data.purchasedAt,
                      generationsUsed |-> 0, orderId |-> data.orderId]
      lic2 == Put(lic, licenseKey, licenseData)
      em2 == Put(em, data.email, licenseKey)
  IN IF fault = "set_license"
     THEN [license |-> lic, emailLicense |-> em, orderLicense |-> ord,
           threw |-> TRUE]
     ELSE IF fault = "set_email"
     THEN [license |-> lic2, emailLicense |-> em, orderLicense |-> ord,
           threw |-> TRUE]
     ELSE [license |-> lic2, emailLicense |-> em2, orderLicense |-> ord,
           threw |-> FALSE]

\* Variant: the two indexes are written before the license record.
CreateLicense_IndexFirst(lic, em, ord, licenseKey, data, fault) ==
  LET licenseData == [tier |-> data.tier, email |-> data.email,
                      purchasedAt |-> data.purchasedAt,
                      generationsUsed |-> 0, orderId |-> data.orderId]
      lic2 == Put(lic, licenseKey, licenseData)
      em2 == Put(em, data.email, licenseKey)
      ord2 == Put(ord, data.orderId, licenseKey)
  IN IF fault = "set_email"
     THEN [license |-> lic, emailLicense |-> em, orderLicense |-> ord,
           threw |-> TRUE]
     ELSE IF fault = "set_order"
     THEN [license |-> lic, emailLicense |-> em2, orderLicense |-> ord,
           threw |-> TRUE]
     ELSE IF fault = "set_license"
     THEN [license |-> lic, emailLicense |-> em2, orderLicense |-> ord2,
           threw |-> TRUE]
     ELSE [license |-> lic2, emailLicense |-> em2, orderLicense |-> ord2,
           threw |-> FALSE]

\* getLicense(licenseKey): JSON.parse of license:<key>, or null.
GetLicense(lic, licenseKey) ==
  IF licenseKey \in DOMAIN lic THEN lic[licenseKey] ELSE None

\* getLicenseByEmail(email): the value of email:<email>, or null.
GetLicenseByEmail(em, email) ==
  IF email \in DOMAIN em THEN em[email] ELSE None

\* getLicenseByOrderId(orderId): the value of order:<orderId>, or null.
GetLicenseByOrderId(ord, orderId) ==
  IF orderId \in DOMAIN ord THEN ord[orderId] ELSE None

\* createLicense(licenseKey, data): three SETs, not transactional.
CreateLicense(lic, em, ord, licenseKey, data, fault) ==
  LET licenseData == [tier |-> data.tier, email |-> data.email,
                      purchasedAt |-> data.purchasedAt,
                      generationsUsed |-> 0, orderId |-> data.orderId]
      lic2 == Put(lic, licenseKey, licenseData)
      em2 == Put(em, data.email, licenseKey)
      ord2 == Put(ord, data.orderId, licenseKey)
  IN IF fault = "set_license"
     THEN [license |-> lic, emailLicense |-> em, orderLicense |-> ord,
           threw |-> TRUE]
     ELSE IF fault = "set_email"
     THEN [license |-> lic2, emailLicense |-> em, orderLicense |-> ord,
           threw |-> TRUE]
     ELSE IF fault = "set_order"
     THEN [license |-> lic2, emailLicense |-> em2, orderLicense |-> ord,
           threw |-> TRUE]
     ELSE [license |-> lic2, emailLicense |-> em2, orderLicense |-> ord2,
           threw |-> FALSE]

\* The handler returned or threw before createLicense was called.
WebhookUnchanged(lic, em, ord, threw) ==
  [license |-> lic, emailLicense |-> em, orderLicense |-> ord,
   threw |-> threw, created |-> None, called |-> FALSE]

\* Variant: every order is processed, whatever its status.
IsUnpaid_Never(status) == FALSE

\* attributes.status !== "paid": a missing status is undefined, not "paid".
IsUnpaid(status) == status # "paid"

\* handleOrderCreated(data): `minted` is what generateLicenseKey() returns.
HandleOrderCreated(lic, em, ord, data, minted, fault) ==
  IF ~data.hasAttributes THEN WebhookUnchanged(lic, em, ord, TRUE)
  ELSE IF IsUnpaid(data.status) THEN WebhookUnchanged(lic, em, ord, FALSE)
  ELSE IF ~data.hasItem THEN WebhookUnchanged(lic, em, ord, TRUE)
  ELSE LET tier == GetTierFromVariant(data.variant_id)
           c == CreateLicense(lic, em, ord, minted,
                              [tier |-> tier, email |-> data.user_email,
                               purchasedAt |-> data.created_at,
                               orderId |-> data.id], fault)
       IN IF tier = None THEN WebhookUnchanged(lic, em, ord, FALSE)
          ELSE [license |-> c.license, emailLicense |-> c.emailLicense,
                orderLicense |-> c.orderLicense, threw |-> c.threw,
                created |-> IF c.threw THEN None ELSE minted,
                called |-> TRUE]

WebhookResponse(status, text) == [status |-> status, text |-> text]

\* Variant: the delivery is acknowledged whether or not processing threw.
WebhookOutcome_AlwaysAck(threw) == WebhookResponse(200, "received")

\* The end of POST: 200 {received: true} after the switch, 500 from the
\* catch when anything after the signature check threw.
WebhookOutcome(threw) ==
  IF threw THEN WebhookResponse(500, "Internal server error")
  ELSE WebhookResponse(200, "received")

\* POST /api/webhook: signature.present tells whether the X-Signature header
\* was sent with a non-empty value.
POST_webhook(lic, em, ord, rawBody, signature, minted, fault) ==
  LET same(resp) == [license |-> lic, emailLicense |-> em,
                     orderLicense |-> ord, created |-> None,
                     called |-> FALSE, resp |-> resp]
      h == IF rawBody.event_name = "order_created"
           THEN HandleOrderCreated(lic, em, ord, rawBody, minted, fault)
           ELSE WebhookUnchanged(lic, em, ord, FALSE)
  IN IF ~signature.present
     THEN same(WebhookResponse(401, "Missing signature"))
     ELSE IF ~VerifyWebhookSignature(rawBody, signature.value)
     THEN same(WebhookResponse(401, "Invalid signature"))
     ELSE IF ~ParseWebhookPayload(rawBody)
     THEN same(WebhookResponse(400, "Invalid payload"))
     ELSE IF ~rawBody.hasAttributes
     THEN same(WebhookOutcome(TRUE))
     ELSE [license |-> h.license, emailLicense |-> h.emailLicense,
           orderLicense |-> h.orderLicense, created |-> h.created,
           called |-> h.called, resp |-> WebhookOutcome(h.threw)]

\* GET /api/license/[orderId]: the license of an order, for the success
\* page.  fault "get" is a store read that throws.
GET_license(lic, ord, orderId, fault) ==
  LET licenseKey == GetLicenseByOrderId(ord, orderId)
      found == GetLicense(lic, licenseKey)
  IN IF orderId = ""
     THEN [status |-> 400, text |-> "Order ID is required"]
     ELSE IF fault = "get"
     THEN [status |-> 500, text |-> "Internal server error"]
     ELSE IF licenseKey = None
     THEN [status |-> 404, text |-> "License not found"]
     ELSE IF licenseKey \notin DOMAIN lic
     THEN [status |-> 404, text |-> "License data not found"]
     ELSE [status |-> 200, text |-> "found", licenseKey |-> licenseKey,
           tier |-> found.tier, email |-> found.email]

(***************************************************************************)
(* Inputs of the webhook.  An order fixes its variant and its customer, so *)
(* the deliveries about one order differ in the event name, the order      *)
(* status and in how much of the payload arrives.                          *)
(***************************************************************************)

Orders ==
  {[id |-> "1001", variant_id |-> ParseInt(ENV_VARIANT_BASIC),
    user_email |-> "buyer@example.com"],
   [id |-> "1002", variant_id |-> ParseInt(ENV_VARIANT_LIFETIME),
    user_email |-> "buyer@example.com"],
   [id |-> "1003", variant_id |-> VARIANT_OTHER,
    user_email |-> "other@example.com"]}

Payload(event, o, status) ==
  [json |-> TRUE, event_name |-> event, id |-> o.id, hasAttributes |-> TRUE,
   status |-> status, hasItem |-> TRUE, variant_id |-> o.variant_id,
   user_email |-> o.user_email, created_at |-> "2025-01-01T00:00:00Z"]

PaidOrderCreated(o) == Payload("order_created", o, "paid")
AnOrder == CHOOSE o \in Orders : o.id = "1001"

\* Raw bodies: the well-formed deliveries, then a body that is not JSON, and
\* JSON without the event name, the order id, the attributes, the order item,
\* the order status, the variant id, the customer email.
WebhookBodies ==
  {Payload(ev, o, st) :
     ev \in {"order_created", "order_refunded", "subscription_created"},
     o \in Orders, st \in {"paid", "pending"}}
  \cup {[PaidOrderCreated(AnOrder) EXCEPT !.json = FALSE],
        [PaidOrderCreated(AnOrder) EXCEPT !.event_name = None],
        [PaidOrderCreated(AnOrder) EXCEPT !.id = None],
        [PaidOrderCreated(AnOrder) EXCEPT !.hasAttributes = FALSE],
        [PaidOrderCreated(AnOrder) EXCEPT !.hasItem = FALSE],
        [PaidOrderCreated(AnOrder) EXCEPT !.status = None],
        [PaidOrderCreated(AnOrder) EXCEPT !.variant_id = NoNum],
        [PaidOrderCreated(AnOrder) EXCEPT !.user_email = None]}

\* An X-Signature header: absent or empty (present = FALSE), or its value.
Sig(present, value) == [present |-> present, value |-> value]

\* What generateLicenseKey() may return.
MintedKeys == {"ABCD-EFGH-JKLM-NPQR", "STUV-WXYZ-2345-6789"}

RegistryFaults == {"none", "set_license", "set_email", "set_order"}

\* X-Signature values that are not the body's: absent or empty, computed
\* with another secret, the right one of another body, a truncated one.
\* The inputs of a webhook delivery: raw body, X-Signature, the key minted,
\* the failing store call.  The last two are varied for the rightly signed
\* deliveries, which alone can reach them.
BadSignaturesFor(b) ==
  {Sig(FALSE, HmacSha256Hex("", b)),
   Sig(TRUE, HmacSha256Hex("whsec_other", b)),
   Sig(TRUE, HmacSha256Hex(WEBHOOK_SECRET, [b EXCEPT !.json = ~b.json])),
   Sig(TRUE, [HmacSha256Hex(WEBHOOK_SECRET, b)
                EXCEPT !.len = HEX_DIGEST_LENGTH - 1])}

WebhookInputs ==
  UNION {{<<b, sg, "ABCD-EFGH-JKLM-NPQR", "none">> : sg \in BadSignaturesFor(b)} :
           b \in WebhookBodies}
  \cup {<<b, Sig(TRUE, HmacSha256Hex(WEBHOOK_SECRET, b)), m, f>> :
          b \in WebhookBodies, m \in MintedKeys, f \in RegistryFaults}

(***************************************************************************)
(* The state machine.                                                      *)
(***************************************************************************)

\* The process has just started (the rate limiter's map is empty); the store
\* outlives it and is empty, or holds a free-tier counter one short of its
\* cap, or a license-keyed counter one short of the basic cap.
EmptyStore == [usage |-> EmptyMap, usageExpiry |-> EmptyMap]

InitStores ==
  {EmptyStore,
   [usage |-> Put(EmptyMap, ClientIp, FREE_TIER_maxGenerations - 1),
    usageExpiry |-> Put(EmptyMap, ClientIp, FREE_TIER_ttlSeconds)],
   [usage |-> Put(EmptyMap, LicenseKeyK, PAID_TIERS_basic_generations - 1),
    usageExpiry |-> EmptyMap]}

NoGrants == [free |-> EmptyMap, basic |-> EmptyMap]

\* No request is being handled.
Idle == [op |-> "idle"]

\* The callers that may be inside incrementUsage at the same time, none of
\* them in a call.
Callers == {"request-1", "request-2"}
NoCall == [pc |-> "idle"]
NoCalls == [c \in Callers |-> NoCall]

InitWith(stores) ==
  /\ now = 0
  /\ rateLimitMap = EmptyMap
  /\ \E s \in stores : usage = s.usage /\ usageExpiry = s.usageExpiry
  /\ dailyStats = EmptyMap
  /\ statsExpiry = EmptyMap
  /\ license = EmptyMap
  /\ emailLicense = EmptyMap
  /\ orderLicense = EmptyMap
  /\ nreq = 0
  /\ ticks = 0
  /\ granted = NoGrants
  /\ inflight = NoCalls
  /\ completed = EmptyMap
  /\ admitted = EmptyMap
  /\ last = Idle

Init == InitWith(InitStores)

CountOf(f, k) == IF k \in DOMAIN f THEN f[k] ELSE 0

\* History: a 200 response with tier free or basic is counted for the
\* identifier whose counter was charged.
Grant(g, o) ==
  IF o.resp.status # 200 THEN g
  ELSE IF o.resp.tier = "free"
  THEN [g EXCEPT !.free = Put(g.free, o.ip, CountOf(g.free, o.ip) + 1)]
  ELSE IF o.resp.tier = "basic"
  THEN [g EXCEPT !.basic = Put(g.basic, o.licenseKey,
                               CountOf(g.basic, o.licenseKey) + 1)]
  ELSE g

\* Variant: the tracking is awaited, and its failure reaches the catch.
TrackOutcome_Awaited(o, threw) ==
  IF threw THEN [o EXCEPT !.resp = INTERNAL_ERROR] ELSE o

\* trackDailyGeneration().catch(console.error): the rejection is logged and
\* the response is the one already built.
TrackOutcome(o, threw) == o

\* One generate request, handled from arrival to response.  The daily
\* statistics are tracked without being awaited: tf is the store call of
\* trackDailyGeneration that throws, if any.  The record of the request keeps
\* the oracles the handler consulted.
GenerateWith(inputs, trackFaults) ==
  /\ last = Idle
  /\ \E in \in inputs :
       \E o \in {POST_generate(rateLimitMap, usage, usageExpiry, now,
                               in[1], in[2], in[3], in[4], in[5])} :
         \E tf \in IF o.track THEN trackFaults ELSE {"none"} :
           \E tr \in {IF o.track
                      THEN TrackDailyGeneration(dailyStats, statsExpiry, now, tf)
                      ELSE [dailyStats |-> dailyStats,
                            statsExpiry |-> statsExpiry,
                            threw |-> FALSE]} :
            \E fin \in {TrackOutcome(o, tr.threw)} :
             /\ rateLimitMap' = o.rateLimitMap
             /\ usage' = o.usage
             /\ usageExpiry' = o.usageExpiry
             /\ dailyStats' = tr.dailyStats
             /\ statsExpiry' = tr.statsExpiry
             /\ granted' = Grant(granted, fin)
             /\ last' = [op |-> "generate", ip |-> o.ip,
                         licenseKey |-> o.licenseKey, stage |-> o.stage,
                         api |-> IF o.stage \in {"rate_limit", "validation"}
                                    \/ o.licenseKey = None
                                 THEN ApiUnused ELSE in[3],
                         gen |-> IF o.genCalled THEN in[4] ELSE GenUnused,
                         fault |-> IF o.stage \in {"entitlement", "charge"}
                                   THEN in[5] ELSE "none",
                         trackFault |-> tf,
                         lic |-> o.lic, used |-> o.used,
                         genCalled |-> o.genCalled, resp |-> fin.resp]
             /\ UNCHANGED <<now, ticks, registry, ledgerCalls>>

Generate ==
  /\ nreq < MaxRequests
  /\ GenerateWith(GenerateInputs, TrackFaults)
  /\ nreq' = nreq + 1
  /\ UNCHANGED admitted

\* One verify-license request, handled from arrival to response.
VerifyWith(inputs) ==
  /\ last = Idle
  /\ \E in \in inputs :
       \E o \in {POST_verify(usage, in[1], in[2], in[3])} :
          /\ last' = [op |-> "verify", body |-> in[1], api |-> in[2],
                      fault |-> IF o.resp.status = 500 THEN in[3] ELSE "none",
                      lic |-> o.lic, resp |-> o.resp]
          /\ UNCHANGED <<now, rateLimitMap, redisState, ticks, granted,
                         ledgerCalls, admitted>>

Verify ==
  /\ nreq < MaxRequests
  /\ VerifyWith(VerifyInputs)
  /\ nreq' = nreq + 1

\* One webhook delivery, handled from arrival to response.
WebhookWith(inputs) ==
  /\ last = Idle
  /\ \E in \in inputs :
       \E o \in {POST_webhook(license, emailLicense, orderLicense,
                              in[1], in[2], in[3], in[4])} :
          /\ license' = o.license
          /\ emailLicense' = o.emailLicense
          /\ orderLicense' = o.orderLicense
          /\ last' = [op |-> "webhook", body |-> in[1], signature |-> in[2],
                      fault |-> IF o.called THEN in[4] ELSE "none",
                      created |-> o.created, resp |-> o.resp]
          /\ UNCHANGED <<now, rateLimitMap, counters, dailyStats,
                         statsExpiry, ticks, granted, ledgerCalls, admitted>>

Webhook ==
  /\ nreq < MaxRequests
  /\ WebhookWith(WebhookInputs)
  /\ nreq' = nreq + 1

\* One lookup of a license by its order id.
OrderIds == {o.id : o \in Orders} \cup {""}

LicenseByOrder ==
  /\ last = Idle
  /\ nreq < MaxRequests
  /\ \E orderId \in OrderIds, fault \in {"none", "get"} :
       \E o \in {GET_license(license, orderLicense, orderId, fault)} :
          last' = [op |-> "license_by_order", orderId |-> orderId,
                   fault |-> IF o.status = 500 THEN fault ELSE "none",
                   resp |-> o]
  /\ nreq' = nreq + 1
  /\ UNCHANGED <<now, rateLimitMap, redisState, ticks, granted,
                 ledgerCalls, admitted>>

\* The response has been sent: the handler is done with the request.
Respond ==
  /\ last # Idle
  /\ last' = Idle
  /\ UNCHANGED <<now, rateLimitMap, redisState, nreq, ticks, granted,
                 ledgerCalls, admitted>>

\* Time passes by the free tier's TTL.  The store drops the keys whose TTL
\* has run out, and the history forgets the free-tier grants of a counter
\* that is dropped.
TickSteps == {FREE_TIER_ttlSeconds}

Tick ==
  /\ last = Idle
  /\ ticks < MaxTicks
  /\ \E d \in TickSteps :
       LET t == now + d
           gone == Expired(usageExpiry, t)
           sgone == Expired(statsExpiry, t)
       IN /\ now' = t
          /\ usage' = Drop(usage, gone)
          /\ usageExpiry' = Drop(usageExpiry, gone)
          /\ dailyStats' = Drop(dailyStats, sgone)
          /\ statsExpiry' = Drop(statsExpiry, sgone)
          /\ granted' = [granted EXCEPT !.free = Drop(granted.free, gone)]
  /\ ticks' = ticks + 1
  /\ UNCHANGED <<rateLimitMap, registry, nreq, last, ledgerCalls, admitted>>

\* Generate and verify-license requests against the three initial stores.
Next == Generate \/ Verify \/ Respond
Spec == Init /\ [][Next]_vars

\* Webhook deliveries and lookups by order id against the license registry,
\* from an empty store.
InitWebhook == InitWith({EmptyStore})
NextWebhook == Webhook \/ LicenseByOrder \/ Respond
SpecWebhook == InitWebhook /\ [][NextWebhook]_vars

\* The response has been sent and the serverless instance that served it is
\* discarded: the next request starts with an empty rate-limiter map.
Recycle ==
  /\ last # Idle
  /\ last' = Idle
  /\ rateLimitMap' = EmptyMap
  /\ UNCHANGED <<now, redisState, nreq, ticks, granted, ledgerCalls,
                 admitted>>

\* Requests that succeed whenever they are entitled: one without a license
\* key whose forwarded address is the string of the license key, one with
\* the license key, for which the licensing API answers valid, basic, active.
ApiBasicActive ==
  ApiData(TRUE, ParseInt(ENV_VARIANT_BASIC), Str("active", "lower"), FALSE, None)

CapInputs ==
  {<<HdrKeyAsIp, GenBody(GoodJd, GoodEx, NoKeyField), ApiUnused, GenOk,
     "none">>}
  \cup {<<HdrPlain, GenBody(GoodJd, GoodEx, KeyField(TRUE, LicenseKeyK, FALSE)),
          ApiBasicActive, GenOk, "none">>}

\* One generate request of the sequence, as long as no basic key has been
\* granted MaxGranted generations.
GenerateCap ==
  /\ \A k \in DOMAIN granted.basic : granted.basic[k] < MaxGranted
  /\ GenerateWith(CapInputs, {"none"})
  /\ UNCHANGED <<nreq, admitted>>

\* Sequential generate requests over time, from an empty store.
InitCap == InitWith({EmptyStore})
NextCap == GenerateCap \/ Recycle \/ Tick
SpecCap == InitCap /\ [][NextCap]_vars

(***************************************************************************)
(* incrementUsage under concurrent callers (lib/redis.ts).  A call is two  *)
(* store commands, INCR and, for a counter a free-tier increment has just  *)
(* created, EXPIRE; the commands of different callers interleave.          *)
(***************************************************************************)

\* The identifiers whose counters the callers increment.
LedgerIds == {ClientIp, LicenseKeyK}

\* Variant: the counter is written back from the value the caller read when
\* its call started (GET, then SET).
IncrAtomically_GetThenSet(u, key, seen) == Put(u, key, seen + 1)

\* redis.incr(key) is one command of the store: what the caller has seen of
\* the counter before plays no part in it.
IncrAtomically(u, key, seen) == RedisIncr(u, key)

Complete(done, identifier) ==
  Put(done, identifier, CountOf(done, identifier) + 1)

\* A request reaches `await incrementUsage(identifier, isPaid)`.
CallIncrementUsage ==
  /\ nreq < MaxCalls
  /\ \E c \in Callers, identifier \in LedgerIds, isPaid \in BOOLEAN :
       /\ inflight[c].pc \in {"idle", "done"}
       /\ inflight' = [inflight EXCEPT ![c] =
                         [pc |-> "incr", identifier |-> identifier,
                          isPaid |-> isPaid,
                          seen |-> GetUsageCount(usage, identifier)]]
  /\ nreq' = nreq + 1
  /\ UNCHANGED <<now, rateLimitMap, redisState, ticks, granted, completed,
                 admitted, last>>

\* const newCount = await redis.incr(key); the call is over unless the
\* expiry is due.
Incr ==
  \E c \in Callers :
    /\ inflight[c].pc = "incr"
    /\ LET call == inflight[c]
           u2 == IncrAtomically(usage, call.identifier, call.seen)
           newCount == u2[call.identifier]
           due == NeedsExpiry(call.isPaid, newCount)
       IN /\ usage' = u2
          /\ inflight' = [inflight EXCEPT ![c] =
                            [pc |-> IF due THEN "expire" ELSE "done",
                             identifier |-> call.identifier,
                             isPaid |-> call.isPaid,
                             newCount |-> newCount, at |-> now]]
          /\ completed' = IF due THEN completed
                          ELSE Complete(completed, call.identifier)
    /\ UNCHANGED <<now, rateLimitMap, usageExpiry, dailyStats, statsExpiry,
                   registry, nreq, ticks, granted, admitted, last>>

\* await redis.expire(key, FREE_TIER.ttlSeconds); the call is over.
Expire ==
  \E c \in Callers :
    /\ inflight[c].pc = "expire"
    /\ usageExpiry' = RedisExpire(usage, usageExpiry, inflight[c].identifier,
                                  FREE_TIER_ttlSeconds, now)
    /\ inflight' = [inflight EXCEPT ![c].pc = "done"]
    /\ completed' = Complete(completed, inflight[c].identifier)
    /\ UNCHANGED <<now, rateLimitMap, usage, dailyStats, statsExpiry,
                   registry, nreq, ticks, granted, admitted, last>>

\* Time passes by half the free tier's TTL.  The store drops the counters
\* whose TTL has run out, and the history forgets the calls on them.
LedgerTick ==
  /\ ticks < MaxLedgerTicks
  /\ LET t == now + FREE_TIER_ttlSeconds \div 2
         gone == Expired(usageExpiry, t)
     IN /\ now' = t
        /\ usage' = Drop(usage, gone)
        /\ usageExpiry' = Drop(usageExpiry, gone)
        /\ completed' = Drop(completed, gone)
  /\ ticks' = ticks + 1
  /\ UNCHANGED <<rateLimitMap, dailyStats, statsExpiry, registry, nreq,
                 granted, inflight, admitted, last>>

InitLedger == InitWith({EmptyStore})
NextLedger == CallIncrementUsage \/ Incr \/ Expire \/ LedgerTick
SpecLedger == InitLedger /\ [][NextLedger]_vars

(***************************************************************************)
(* Concurrent generate requests on one counter (generate/route.ts lines    *)
(* 175-242).  A request reads the counter, decides, generates, and only    *)
(* then increments; the steps of the requests in flight interleave, so     *)
(* several requests may read the same count before any of them writes.     *)
(***************************************************************************)

\* What the requests are charged to: a free request from ClientIp, a request
\* with the basic key LicenseKeyK, and a free request whose forwarded
\* address is the string of that key.
RaceRequests ==
  {[identifier |-> ClientIp, isPaid |-> FALSE],
   [identifier |-> LicenseKeyK, isPaid |-> TRUE],
   [identifier |-> LicenseKeyK, isPaid |-> FALSE]}

\* Variant: the count read is not compared with the cap.
Admits_Unchecked(isPaid, usageCount) == TRUE

\* Lines 179-181 and 197: the count read leaves room under the tier's cap.
Admits(isPaid, usageCount) ==
  IF isPaid THEN BasicRemaining(usageCount) > 0
  ELSE ~FreeLimitReached(usageCount)

\* A request reads its counter (getUsageCount) and is denied with 402
\* LIMIT_REACHED or goes on to the generation.
ReadUsage ==
  /\ nreq < MaxRaceRequests
  /\ \E c \in Callers, r \in RaceRequests :
       /\ inflight[c].pc \in {"idle", "done", "denied", "failed"}
       /\ LET usageCount == GetUsageCount(usage, r.identifier)
          IN inflight' = [inflight EXCEPT ![c] =
               [pc |-> IF Admits(r.isPaid, usageCount) THEN "generate"
                       ELSE "denied",
                identifier |-> r.identifier, isPaid |-> r.isPaid,
                seen |-> usageCount]]
  /\ nreq' = nreq + 1
  /\ UNCHANGED <<now, rateLimitMap, redisState, ticks, granted, completed,
                 admitted, last>>

\* generateCompletion returns: with bullets, and the request reaches
\* incrementUsage; or without, and the request ends uncharged.
Generated ==
  /\ \E c \in Callers, ok \in BOOLEAN :
       /\ inflight[c].pc = "generate"
       /\ inflight' = [inflight EXCEPT ![c].pc =
                         IF ok THEN "incr" ELSE "failed"]
  /\ UNCHANGED <<now, rateLimitMap, redisState, nreq, ticks, granted,
                 completed, admitted, last>>

InitRace == InitWith(InitStores)
NextRace == ReadUsage \/ Generated \/ Incr \/ Expire \/ LedgerTick
SpecRace == InitRace /\ [][NextRace]_vars

(***************************************************************************)
(* The registry's own accounting (lib/redis.ts): generationsUsed of a      *)
(* license record against the cap of its tier.  A JavaScript number is an  *)
(* integer or Infinity; Infinity is its own value, above every integer,    *)
(* and Infinity - n is Infinity.                                           *)
(***************************************************************************)

Infinity == 2147483647

\* PAID_TIERS[tier].generations
PAID_TIERS_generations(tier) ==
  IF tier = "basic" THEN PAID_TIERS_basic_generations ELSE Infinity

\* a - b, a > 0 and Math.max(0, a) on numbers that may be Infinity.
NumMinus(a, b) == IF a = Infinity THEN Infinity ELSE a - b
NumPositive(a) == a = Infinity \/ a > 0
NumMax0(a) == IF a = Infinity THEN Infinity ELSE Max(0, a)

\* Variant: a license with nothing left is still valid.
IsValidRemaining_Inclusive(remaining) == remaining = Infinity \/ remaining >= 0

\* isValid: remaining > 0
IsValidRemaining(remaining) == NumPositive(remaining)

\* checkLicenseValidity(licenseKey)
CheckLicenseValidity(lic, licenseKey) ==
  IF licenseKey \notin DOMAIN lic
  THEN [isValid |-> FALSE, remaining |-> 0, tier |-> None]
  ELSE LET found == lic[licenseKey]
           remaining == NumMinus(PAID_TIERS_generations(found.tier),
                                 found.generationsUsed)
       IN [isValid |-> IsValidRemaining(remaining),
           remaining |-> NumMax0(remaining),
           tier |-> found.tier]

\* incrementLicenseUsage(licenseKey): the record read, then written back with
\* generationsUsed + 1; nothing is written when there is no record.
IncrementLicenseUsage(lic, licenseKey) ==
  IF licenseKey \notin DOMAIN lic THEN lic
  ELSE Put(lic, licenseKey,
           [lic[licenseKey] EXCEPT !.generationsUsed = @ + 1])

\* The registry after createLicense has stored a license of the tier.
RegistryWith(tier) ==
  CreateLicense(EmptyMap, EmptyMap, EmptyMap, "ABCD-EFGH-JKLM-NPQR",
                [tier |-> tier, email |-> "buyer@example.com",
                 purchasedAt |-> "2025-01-01T00:00:00Z",
                 orderId |-> "1001"], "none")

InitRegistry ==
  /\ now = 0
  /\ rateLimitMap = EmptyMap
  /\ usage = EmptyMap
  /\ usageExpiry = EmptyMap
  /\ dailyStats = EmptyMap
  /\ statsExpiry = EmptyMap
  /\ \E r \in {[license |-> EmptyMap, emailLicense |-> EmptyMap,
                 orderLicense |-> EmptyMap]}
               \cup {RegistryWith(tier) : tier \in {"basic", "lifetime"}} :
       /\ license = r.license
       /\ emailLicense = r.emailLicense
       /\ orderLicense = r.orderLicense
  /\ nreq = 0
  /\ ticks = 0
  /\ granted = NoGrants
  /\ inflight = NoCalls
  /\ completed = EmptyMap
  /\ admitted = EmptyMap
  /\ last = Idle

\* One call of checkLicenseValidity.
CheckValidity ==
  /\ last = Idle
  /\ \E licenseKey \in MintedKeys :
       last' = [op |-> "check_validity", licenseKey |-> licenseKey,
                resp |-> CheckLicenseValidity(license, licenseKey)]
  /\ UNCHANGED <<now, rateLimitMap, redisState, nreq, ticks, granted,
                 ledgerCalls, admitted>>

\* One call of incrementLicenseUsage, as long as no record has been used
\* MaxUsed times.
UseLicense ==
  /\ last = Idle
  /\ \A k \in DOMAIN license : license[k].generationsUsed < MaxUsed
  /\ \E licenseKey \in MintedKeys :
       /\ license' = IncrementLicenseUsage(license, licenseKey)
       /\ last' = [op |-> "increment_license_usage",
                   licenseKey |-> licenseKey]
  /\ UNCHANGED <<now, rateLimitMap, counters, dailyStats, statsExpiry,
                 emailLicense, orderLicense, nreq, ticks, granted,
                 ledgerCalls, admitted>>

NextRegistry == CheckValidity \/ UseLicense \/ Respond
SpecRegistry == InitRegistry /\ [][NextRegistry]_vars

(***************************************************************************)
(* The rate limiter of the generate route over time, in one server         *)
(* process.  The history keeps, per client ip, the instants of the         *)
(* requests let through that are no older than the window's length.        *)
(***************************************************************************)

WindowSeconds == RATE_LIMIT_windowMs \div 1000

InstantsOf(a, ip) == IF ip \in DOMAIN a THEN a[ip] ELSE <<>>

\* The instants of s that are not before `from`.
Since(s, from) ==
  LET NotBefore(t) == t >= from IN SelectSeq(s, NotBefore)

\* Requests from one address: a body that is not JSON, and a valid free-tier
\* body.
RateInputs ==
  {<<HdrPlain, NotJson, ApiUnused, GenUnused, "none">>,
   <<HdrPlain, GenBody(GoodJd, GoodEx, NoKeyField), ApiUnused, GenOk,
     "none">>}

\* One generate request; the history notes the instant if the rate limiter
\* let it through.
GenerateRate ==
  /\ GenerateWith(RateInputs, {"none"})
  /\ admitted' = IF last'.stage = "rate_limit" THEN admitted
                 ELSE Put(admitted, last'.ip,
                          Append(InstantsOf(admitted, last'.ip), now))
  /\ UNCHANGED nreq

\* Time passes by a second or by the window's length.
RateTickSteps == {1, WindowSeconds}

RateTick ==
  /\ last = Idle
  /\ ticks < MaxRateTicks
  /\ \E d \in RateTickSteps :
       LET t == now + d
           gone == Expired(usageExpiry, t)
           sgone == Expired(statsExpiry, t)
       IN /\ now' = t
          /\ usage' = Drop(usage, gone)
          /\ usageExpiry' = Drop(usageExpiry, gone)
          /\ dailyStats' = Drop(dailyStats, sgone)
          /\ statsExpiry' = Drop(statsExpiry, sgone)
          /\ granted' = [granted EXCEPT !.free = Drop(granted.free, gone)]
          /\ admitted' = [ip \in DOMAIN admitted |->
                            Since(admitted[ip], t - WindowSeconds)]
  /\ ticks' = ticks + 1
  /\ UNCHANGED <<rateLimitMap, registry, nreq, last, ledgerCalls>>

InitRate == InitWith({EmptyStore})
NextRate == GenerateRate \/ Respond \/ RateTick
SpecRate == InitRate /\ [][NextRate]_vars

(***************************************************************************)
(* The purchase flow: the webhook stores a license for a paid order, then  *)
(* the customer sends the stored key to the generate and verify-license    *)
(* routes, which ask the licensing API about it.                           *)
(***************************************************************************)

\* The keys the licensing API has issued.  A key that generateLicenseKey()
\* mints in the webhook handler is stored in Redis only: nothing sends it to
\* the licensing API, which answers for it as for any key it does not know.
LemonSqueezyKeys == {LicenseKeyK}
ApiNotFound == ApiData(FALSE, NoNum, NoStatus, FALSE, "license_key not found.")
ApiAnswers(licenseKey) ==
  IF licenseKey \in LemonSqueezyKeys THEN ApiResponses ELSE {ApiNotFound}

\* Rightly signed deliveries of paid order_created, stored without a fault.
PurchaseWebhookInputs ==
  {<<PaidOrderCreated(o), Sig(TRUE, HmacSha256Hex(WEBHOOK_SECRET,
                                                  PaidOrderCreated(o))),
     m, "none">> : o \in Orders, m \in MintedKeys}

WebhookPurchase ==
  /\ nreq < MaxRequests
  /\ WebhookWith(PurchaseWebhookInputs)
  /\ nreq' = nreq + 1

\* The customer generates with a key the registry holds.
GeneratePurchase ==
  /\ GenerateWith(UNION {{<<HdrPlain,
                             GenBody(GoodJd, GoodEx,
                                     KeyField(TRUE, k, FALSE)),
                             a, GenOk, "none">> : a \in ApiAnswers(k)} :
                           k \in DOMAIN license}, {"none"})
  /\ UNCHANGED <<nreq, admitted>>

\* The customer verifies a key the registry holds.
VerifyPurchase ==
  /\ VerifyWith(UNION {{<<VerifyBody(TRUE, KeyField(TRUE, k, FALSE)), a,
                             "none">> : a \in ApiAnswers(k)} :
                         k \in DOMAIN license})
  /\ UNCHANGED nreq

InitPurchase == InitWith({EmptyStore})
NextPurchase ==
  WebhookPurchase \/ GeneratePurchase \/ VerifyPurchase \/ Respond
SpecPurchase == InitPurchase /\ [][NextPurchase]_vars

(***************************************************************************)
(* Properties.                                                             *)
(***************************************************************************)

\* A generate request that got as far as consulting the license validator.
Validated(r) ==
  r.op = "generate" /\ r.licenseKey # None
    /\ r.stage \notin {"rate_limit", "validation"}

\* A generate request without a license key that got as far as the
\* entitlement decision and read the store.
Keyless(r) ==
  r.op = "generate" /\ r.licenseKey = None
    /\ r.stage \notin {"rate_limit", "validation"} /\ r.fault # "get"

\* The status is "expired", "disabled" or "revoked", in any letter case.
Unusable(status) == status.word \in {"expired", "disabled", "revoked"}

\* The response is the error `code` with HTTP status `status`.
Denied(r, status, code) == r.resp.status = status /\ r.resp.code = code

\* C1: when a generate request passed the entitlement check and the text
\* generation throws or its output parses to zero bullets, the response is
\* 500 GENERATION_FAILED and the request has changed no usage counter.
C1_FailedGenerationNotCharged ==
  [][(/\ last'.op = "generate"
      /\ last'.genCalled
      /\ (last'.gen.threw \/ Len(ParseBulletPoints(last'.gen.content)) = 0))
     => (/\ Denied(last', 500, "GENERATION_FAILED")
         /\ UNCHANGED counters)]_vars

\* C1 witness: a request with a basic key whose generated text parsed to zero
\* bullets was answered GENERATION_FAILED.
C1_Witness ==
  /\ last.op = "generate"
  /\ last.genCalled
  /\ last.licenseKey # None
  /\ ~last.gen.threw
  /\ Len(last.gen.content) > 0
  /\ Len(ParseBulletPoints(last.gen.content)) = 0
  /\ last.resp.code = "GENERATION_FAILED"

\* C2: under sequential generate requests the successful generations never
\* exceed the cap of the identifier charged: an address without a license key
\* has at most 3 successes while its counter lives, a basic license key has
\* at most 50 successes in total.
C2_SequentialCap ==
  /\ \A k \in DOMAIN granted.free : granted.free[k] <= 3
  /\ \A k \in DOMAIN granted.basic : granted.basic[k] <= 50

\* C3: a generate request without a license key is denied with 402
\* LIMIT_REACHED when the stored count of its address is >= 3; otherwise the
\* generation is attempted, and a 200 response reports tier "free" and
\* remaining = 3 - count - 1.
C3_FreeEntitlement ==
  [][Keyless(last')
     => IF CountOf(usage, last'.ip) >= 3
        THEN Denied(last', 402, "LIMIT_REACHED") /\ ~last'.genCalled
        ELSE /\ last'.genCalled
             /\ last'.resp.status = 200
                  => /\ last'.resp.tier = "free"
                     /\ last'.resp.remaining = 3 - CountOf(usage, last'.ip) - 1
    ]_vars

\* C3 witness: a stored count of 2 was allowed, with remaining = 0.
C3_Witness ==
  /\ Keyless(last)
  /\ last.resp.status = 200
  /\ last.resp.remaining = 0
  /\ CountOf(usage, last.ip) = 3

\* C4: for a generate request whose key validates as a usable basic license,
\* remaining is 50 minus the count stored under the key: when that is <= 0 the
\* request is denied with 402 LIMIT_REACHED and no generation is attempted;
\* otherwise the generation is attempted and a 200 response reports
\* remaining = 50 - used - 1.
C4_BasicEntitlement ==
  [][(/\ Validated(last')
      /\ last'.lic.isValid
      /\ last'.lic.tier = "basic"
      /\ ~Unusable(last'.lic.status)
      /\ last'.fault # "get")
     => IF 50 - CountOf(usage, last'.licenseKey) <= 0
        THEN Denied(last', 402, "LIMIT_REACHED") /\ ~last'.genCalled
        ELSE /\ last'.genCalled
             /\ last'.resp.status = 200
                  => /\ last'.resp.tier = "basic"
                     /\ last'.resp.remaining
                          = 50 - CountOf(usage, last'.licenseKey) - 1
    ]_vars

\* C4 witness: a basic key with all 50 generations used was denied with
\* LIMIT_REACHED.
C4_Witness ==
  /\ Validated(last)
  /\ last.lic.tier = "basic"
  /\ CountOf(usage, last.licenseKey) = 50
  /\ last.resp.code = "LIMIT_REACHED"
  /\ ~last.genCalled

\* C5: a generate request whose key validates as a usable lifetime license is
\* never denied with LIMIT_REACHED, whatever count is stored under the key: the
\* generation is attempted, and a 200 response reports remaining = 999.
C5_LifetimeUnlimited ==
  [][(/\ Validated(last')
      /\ last'.lic.isValid
      /\ last'.lic.tier = "lifetime"
      /\ ~Unusable(last'.lic.status))
     => /\ last'.resp.code # "LIMIT_REACHED"
        /\ last'.genCalled
        /\ last'.resp.status = 200
             => last'.resp.remaining = 999 /\ last'.resp.tier = "lifetime"
    ]_vars

\* C5 witness: a lifetime key with more than 50 generations recorded was
\* served, with remaining = 999.
C5_Witness ==
  /\ Validated(last)
  /\ last.lic.tier = "lifetime"
  /\ last.resp.status = 200
  /\ last.resp.remaining = 999
  /\ CountOf(usage, last.licenseKey) > 50

\* C6: a generate request whose key the licensing API reports valid, with a
\* variant that maps to no tier, is denied with 402 INVALID_LICENSE; no
\* generation is attempted and nothing in the store changes.
C6_UnmappedVariantDenied ==
  [][(/\ Validated(last')
      /\ ~last'.api.threw
      /\ last'.api.valid
      /\ last'.api.variant_id \notin {ParseInt(ENV_VARIANT_BASIC),
                                      ParseInt(ENV_VARIANT_LIFETIME)})
     => /\ Denied(last', 402, "INVALID_LICENSE")
        /\ ~last'.genCalled
        /\ UNCHANGED redisState
    ]_vars

\* C6 witness: a valid, active key of another product's variant was denied.
C6_Witness ==
  /\ Validated(last)
  /\ last.api.valid
  /\ last.api.variant_id = VARIANT_OTHER
  /\ last.lic.isValid
  /\ last.lic.tier = None
  /\ last.lic.status = Str("active", "lower")
  /\ last.resp.code = "INVALID_LICENSE"

\* C7: a license whose status is "expired", "disabled" or "revoked" in any
\* letter case is unusable whatever the validator's isValid flag: generate
\* answers 402 INVALID_LICENSE and verify-license answers isValid = false.
C7_UnusableStatus ==
  [][/\ (Validated(last') /\ Unusable(last'.lic.status))
          => Denied(last', 402, "INVALID_LICENSE") /\ ~last'.genCalled
     /\ (last'.op = "verify" /\ Unusable(last'.lic.status))
          => ~last'.resp.isValid /\ last'.resp.status # 200
    ]_vars

\* C7 witness: generate denied a key reported valid with status "EXPIRED".
C7_Witness ==
  /\ Validated(last)
  /\ last.lic.isValid
  /\ last.lic.tier # None
  /\ last.lic.status = Str("expired", "upper")
  /\ last.resp.code = "INVALID_LICENSE"

\* C8: when the call to the licensing API fails, validateLicenseKey answers
\* isValid = false, tier = null and the fixed generic error; generate answers
\* 402 INVALID_LICENSE, attempts no generation, and the raw error is not in
\* the response.
C8_ApiFailureCollapses ==
  [][(Validated(last') /\ last'.api.threw)
     => /\ ~last'.lic.isValid
        /\ last'.lic.tier = None
        /\ last'.lic.error = "Failed to validate license. Please try again."
        /\ Denied(last', 402, "INVALID_LICENSE")
        /\ ~last'.genCalled
        /\ last'.resp.message # last'.api.raw
    ]_vars

\* C8 witness: the licensing API returned something that is not JSON.
C8_Witness ==
  /\ Validated(last)
  /\ last.api.threw
  /\ last.api.raw = "Unexpected token < in JSON"
  /\ last.resp.code = "INVALID_LICENSE"

\* The X-Signature header is missing or is not the hex HMAC-SHA256 of the
\* raw body under the shared secret.
BadSignature(r) ==
  ~r.signature.present
    \/ r.signature.value # HmacSha256Hex(WEBHOOK_SECRET, r.body)

\* C9: a webhook request whose X-Signature is missing or wrong is answered
\* 401 and writes no key of the store, whatever the payload, malformed
\* payloads included.
C9_BadSignatureRejected ==
  [][(last'.op = "webhook" /\ BadSignature(last'))
     => last'.resp.status = 401 /\ UNCHANGED redisState]_vars

\* C9 witness: a body that is not JSON, signed with another secret, got 401.
C9_Witness ==
  /\ last.op = "webhook"
  /\ last.signature.present
  /\ BadSignature(last)
  /\ ~last.body.json
  /\ last.resp.status = 401

\* C10: however often the paid order_created webhook of an order is
\* delivered, at most one license record exists for that order id.
C10_OneRecordPerOrder ==
  \A k1, k2 \in DOMAIN license :
    license[k1].orderId = license[k2].orderId => k1 = k2

\* The minimal shape of a payload: JSON with the event name, the order id,
\* the order status, the variant id and the customer email.
MinimalShape(b) ==
  /\ b.json
  /\ b.event_name # None
  /\ b.id # None
  /\ b.hasAttributes
  /\ b.status # None
  /\ b.hasItem
  /\ b.variant_id # NoNum
  /\ b.user_email # None

\* A paid order_created for a variant the environment maps to a tier.
PaidMappedOrder(b) ==
  /\ b.event_name = "order_created"
  /\ b.status = "paid"
  /\ b.variant_id \in {ParseInt(ENV_VARIANT_BASIC),
                        ParseInt(ENV_VARIANT_LIFETIME)}

C12_MalformedRejected ==
  [][(/\ last'.op = "webhook"
      /\ ~BadSignature(last')
      /\ ~MinimalShape(last'.body))
     => /\ last'.resp.status = 400
        /\ UNCHANGED redisState]_vars

\* An exception was raised while the parsed payload was processed: the
\* attributes or the order item were read from a payload without them, or a
\* store write of createLicense failed.
Raised(r) ==
  \/ ~r.body.hasAttributes
  \/ /\ r.body.event_name = "order_created"
     /\ r.body.status = "paid"
     /\ ~r.body.hasItem
  \/ r.fault # "none"

\* C13: an authenticated, parsed webhook whose processing raises an exception
\* is answered 500, and 200 is answered only when processing completed
\* without an exception.
C13_ExceptionIsRetryable ==
  [][(/\ last'.op = "webhook"
      /\ ~BadSignature(last')
      /\ ParseWebhookPayload(last'.body))
     => /\ Raised(last') => last'.resp.status = 500
        /\ last'.resp.status = 200 => ~Raised(last')
        /\ last'.resp.status \in {200, 500}]_vars

\* C13 witness: the second store write of createLicense failed; the delivery
\* was answered 500 with the license record written and no index.
C13_Witness ==
  /\ last.op = "webhook"
  /\ ~BadSignature(last)
  /\ last.fault = "set_email"
  /\ last.resp.status = 500
  /\ license # EmptyMap
  /\ emailLicense = EmptyMap

\* createLicense was called for the delivery and none of its writes failed.
CreateLicenseCompleted(r) ==
  /\ ~BadSignature(r)
  /\ ParseWebhookPayload(r.body)
  /\ r.body.hasAttributes
  /\ r.body.hasItem
  /\ PaidMappedOrder(r.body)
  /\ r.fault = "none"

\* C14: after createLicense(key, {tier, email, purchasedAt, orderId}) has
\* completed, the lookups by email and by order id both return the key, and
\* the lookup by key returns a record with the given tier, email, purchase
\* date and order id and with generationsUsed = 0.
C14_CreateThenLookup ==
  [][(last'.op = "webhook" /\ CreateLicenseCompleted(last'))
     => /\ last'.created # None
        /\ GetLicenseByEmail(emailLicense', last'.body.user_email)
             = last'.created
        /\ GetLicenseByOrderId(orderLicense', last'.body.id) = last'.created
        /\ GetLicense(license', last'.created)
             = [tier |-> GetTierFromVariant(last'.body.variant_id),
                email |-> last'.body.user_email,
                purchasedAt |-> last'.body.created_at,
                generationsUsed |-> 0,
                orderId |-> last'.body.id]]_vars

\* C14 witness: a lifetime order was stored, and the three lookups agree on
\* the minted key.
C14_Witness ==
  /\ last.op = "webhook"
  /\ CreateLicenseCompleted(last)
  /\ last.created \in MintedKeys
  /\ GetLicenseByOrderId(orderLicense, "1002") = last.created
  /\ GetLicenseByEmail(emailLicense, "buyer@example.com") = last.created
  /\ GetLicense(license, last.created).tier = "lifetime"

\* C15: in every reachable state, after partial failures of createLicense and
\* after replays, every email index entry and every order index entry points
\* to a license key whose record exists, so the lookup by order id never
\* finds an index without its record.
C15_NoDanglingIndex ==
  /\ \A e \in DOMAIN emailLicense : emailLicense[e] \in DOMAIN license
  /\ \A i \in DOMAIN orderLicense : orderLicense[i] \in DOMAIN license
  /\ last.op = "license_by_order"
       => last.resp.text # "License data not found"

\* C15 witness: createLicense failed at its third write and the order was
\* then looked up: the email index points to the stored record, and the
\* order has no index.
C15_Witness ==
  /\ last.op = "license_by_order"
  /\ last.resp = [status |-> 404, text |-> "License not found"]
  /\ emailLicense # EmptyMap
  /\ orderLicense = EmptyMap
  /\ \A e \in DOMAIN emailLicense : emailLicense[e] \in DOMAIN license

\* The calls on an identifier whose INCR is done and whose EXPIRE is pending.
BetweenCommands(identifier) ==
  {c \in Callers : /\ inflight[c].pc = "expire"
                   /\ inflight[c].identifier = identifier}

\* C16: whatever the interleaving of the callers, the counter of an
\* identifier reads the number of incrementUsage calls completed on it since
\* it last expired, plus the calls that have incremented and not yet
\* returned: no update is lost, and a counter that is absent reads 0.
C16_NoLostUpdate ==
  \A identifier \in LedgerIds :
    /\ GetUsageCount(usage, identifier)
         = CountOf(completed, identifier)
             + Cardinality(BetweenCommands(identifier))
    /\ identifier \notin DOMAIN usage => GetUsageCount(usage, identifier) = 0

\* C16 witness: the second caller incremented the counter between the two
\* commands of the first caller, and the counter reads 2.
C16_Witness ==
  /\ inflight["request-1"].pc = "expire"
  /\ inflight["request-2"].pc = "done"
  /\ inflight["request-1"].identifier = ClientIp
  /\ inflight["request-2"].identifier = ClientIp
  /\ inflight["request-2"].newCount = 2
  /\ GetUsageCount(usage, ClientIp) = 2

\* C17: the TTL of a counter is set only by the call with isPaid = false
\* whose increment returned 1, to 86400 seconds from then; no later increment
\* changes the expiry instant of a counter, and a call with isPaid = true
\* never sets one.
C17_TtlOnFirstIncrementOnly ==
  [][/\ \A k \in LedgerIds :
          /\ (k \in DOMAIN usageExpiry /\ k \in DOMAIN usageExpiry')
               => usageExpiry'[k] = usageExpiry[k]
          /\ (k \notin DOMAIN usageExpiry /\ k \in DOMAIN usageExpiry')
               => /\ usageExpiry'[k] = now + FREE_TIER_ttlSeconds
                  /\ \E c \in Callers :
                       /\ inflight[c].pc = "expire"
                       /\ inflight'[c].pc = "done"
                       /\ inflight[c].identifier = k
                       /\ ~inflight[c].isPaid
                       /\ inflight[c].newCount = 1
     /\ \A c \in Callers :
          (inflight[c].pc = "incr" /\ inflight'[c].pc # "incr")
            => (inflight'[c].pc = "expire"
                  <=> (~inflight'[c].isPaid /\ inflight'[c].newCount = 1))
    ]_vars

\* C17 witness: a free-tier increment half a TTL after the first returned 2
\* and the counter still expires 86400 seconds after the first.
C17_Witness ==
  \E c \in Callers :
    /\ inflight[c].pc = "done"
    /\ ~inflight[c].isPaid
    /\ inflight[c].newCount = 2
    /\ inflight[c].at = FREE_TIER_ttlSeconds \div 2
    /\ inflight[c].identifier \in DOMAIN usageExpiry
    /\ usageExpiry[inflight[c].identifier] = FREE_TIER_ttlSeconds

\* C18: checkLicenseValidity(key) returns {isValid: false, remaining: 0,
\* tier: null} when the key has no record; otherwise tier is the record's,
\* remaining is max(0, cap - generationsUsed) and isValid is
\* cap - generationsUsed > 0: a basic license used 50 times is invalid with 0
\* remaining, used 49 times it is valid with 1 remaining, and a lifetime
\* license is valid whatever its generationsUsed.
C18_CheckLicenseValidity ==
  last.op = "check_validity" =>
    IF last.licenseKey \notin DOMAIN license
    THEN last.resp = [isValid |-> FALSE, remaining |-> 0, tier |-> None]
    ELSE LET used == license[last.licenseKey].generationsUsed
             tier == license[last.licenseKey].tier
         IN /\ last.resp.tier = tier
            /\ tier = "basic" =>
                 /\ last.resp.isValid = (used < 50)
                 /\ last.resp.remaining = (IF used < 50 THEN 50 - used ELSE 0)
                 /\ used = 50 => last.resp = [isValid |-> FALSE,
                                              remaining |-> 0,
                                              tier |-> "basic"]
                 /\ used = 49 => last.resp = [isValid |-> TRUE,
                                              remaining |-> 1,
                                              tier |-> "basic"]
            /\ tier = "lifetime" =>
                 /\ last.resp.isValid
                 /\ last.resp.remaining = Infinity

\* C18 witness: a basic license used exactly 50 times was checked.
C18_Witness ==
  /\ last.op = "check_validity"
  /\ last.licenseKey \in DOMAIN license
  /\ license[last.licenseKey].tier = "basic"
  /\ license[last.licenseKey].generationsUsed = 50
  /\ ~last.resp.isValid

\* The request was turned away by the rate limiter, before its body was
\* read: nothing was validated, looked up, generated or written.
TurnedAway ==
  /\ last'.stage = "rate_limit"
  /\ last'.resp = RATE_LIMITED
  /\ last'.resp.status = 429
  /\ ~last'.genCalled
  /\ UNCHANGED redisState

InWindow(ip, t) ==
  IF ip \in DOMAIN rateLimitMap /\ DateNow(t) <= rateLimitMap[ip].resetTime
  THEN Len(Since(InstantsOf(admitted, ip),
                 (rateLimitMap[ip].resetTime - RATE_LIMIT_windowMs) \div 1000))
  ELSE 0

C20_PurchaseFlowWorks ==
  [][/\ (/\ last'.op = "generate"
         /\ last'.stage # "rate_limit"
         /\ last'.licenseKey \in DOMAIN license)
          => /\ last'.resp.code # "INVALID_LICENSE"
             /\ last'.resp.status = 200
                  => last'.resp.tier = license[last'.licenseKey].tier
     /\ (/\ last'.op = "verify"
         /\ last'.body.licenseKey.text \in DOMAIN license)
          => /\ last'.resp.isValid
             /\ last'.resp.tier = license[last'.body.licenseKey.text].tier
    ]_vars

\* C21: in every reachable state the counter keyed by the client IP, if it
\* exists, carries a TTL that runs out within 86400 seconds, and the counter
\* keyed by the license key carries no TTL.
C21_FreeCountersExpire ==
  /\ ClientIp \in DOMAIN usage
       => /\ ClientIp \in DOMAIN usageExpiry
          /\ usageExpiry[ClientIp] - now <= FREE_TIER_ttlSeconds
  /\ LicenseKeyK \notin DOMAIN usageExpiry

\* The cap of the tier an identifier belongs to: an address is free, a
\* license key is basic.
CapOf(identifier) ==
  IF identifier = LicenseKeyK THEN PAID_TIERS_basic_generations
  ELSE FREE_TIER_maxGenerations

\* C22: with N requests in flight at once, each reading the counter,
\* generating, then incrementing, a stored count never exceeds its
\* identifier's cap by more than N - 1 (N = the number of callers).
C22_OverCountBounded ==
  \A identifier \in LedgerIds :
    CountOf(usage, identifier)
      <= CapOf(identifier) + Cardinality(Callers) - 1

\* Every caller was allowed on the same counter and the count stands at
\* cap + N - 1.
C22_Witness ==
  \E identifier \in LedgerIds :
    /\ \A c \in Callers :
         /\ inflight[c].pc = "done"
         /\ inflight[c].identifier = identifier
    /\ CountOf(usage, identifier)
         = CapOf(identifier) + Cardinality(Callers) - 1

\* C23: in every reachable state every license record of tier basic has
\* 0 <= generationsUsed <= 50.
C23_BasicUsedWithinCap ==
  \A k \in DOMAIN license :
    license[k].tier = "basic"
      => /\ license[k].generationsUsed >= 0
         /\ license[k].generationsUsed <= PAID_TIERS_basic_generations

\* The counter a successful generate request is charged to.
ChargedTo(r) == IF r.licenseKey # None THEN r.licenseKey ELSE r.ip

\* C24: a generate request answered 200 increments exactly one usage counter
\* by exactly 1: the one keyed by the license key when the request carries
\* one (basic or lifetime), the one keyed by the client IP otherwise; every
\* other counter and every license record is unchanged.
C24_OneCounterCharged ==
  [][(last'.op = "generate" /\ last'.resp.status = 200)
     => /\ usage' = Put(usage, ChargedTo(last'),
                        CountOf(usage, ChargedTo(last')) + 1)
        /\ \A k \in DOMAIN usage :
             k # ChargedTo(last') => usage'[k] = usage[k]
        /\ UNCHANGED registry]_vars

\* C24 witness: a lifetime request was answered 200 and charged to its key;
\* the client IP has no counter.
C24_Witness ==
  /\ last.op = "generate"
  /\ last.resp.status = 200
  /\ last.resp.tier = "lifetime"
  /\ last.licenseKey \in DOMAIN usage
  /\ last.ip \notin DOMAIN usage

\* C25: when the usage increment that follows a successful generation fails,
\* the request is still answered 200 with its bullets and the usage counter
\* is left as it was.
C25_SilentChargeFailure ==
  [][(last'.op = "generate" /\ last'.fault \in {"incr", "expire"})
     => /\ last'.resp.status = 200
        /\ last'.resp.bullets > 0
        /\ UNCHANGED usage]_vars

\* C26: when the read of the usage counter fails during a generate request,
\* the text generation is not invoked, the response is 500 INTERNAL_ERROR and
\* no counter changes: the failure is not taken for a count of 0 or for an
\* unlimited quota.
C26_ReadFailsClosed ==
  [][(last'.op = "generate" /\ last'.fault = "get")
     => /\ ~last'.genCalled
        /\ Denied(last', 500, "INTERNAL_ERROR")
        /\ UNCHANGED counters]_vars

\* C26 witness: a request with a basic key whose usage read failed was
\* answered INTERNAL_ERROR without a generation.
C26_Witness ==
  /\ last.op = "generate"
  /\ last.fault = "get"
  /\ last.licenseKey # None
  /\ last.lic.tier = "basic"
  /\ ~last.genCalled
  /\ last.resp.code = "INTERNAL_ERROR"

\* C27: a failure of trackDailyGeneration, at its increment or at its expire,
\* does not change the outcome of the generate request: the response is 200
\* with the bullets and the usage counter stays incremented.
C27_TrackingFailureHarmless ==
  [][(last'.op = "generate" /\ last'.trackFault # "none")
     => /\ last'.resp.status = 200
        /\ last'.resp.bullets > 0
        /\ CountOf(usage', ChargedTo(last'))
             = CountOf(usage, ChargedTo(last')) + 1]_vars

\* C27 witness: the increment of the daily counter failed, the response is
\* 200 and the daily counter is absent.
C27_Witness ==
  /\ last.op = "generate"
  /\ last.trackFault = "incr"
  /\ last.resp.status = 200
  /\ dailyStats = EmptyMap
  /\ usage # EmptyMap

\* The generate route denies a key with INVALID_LICENSE when the licensing
\* API answers `api` for it.
GenerateDenies(api) ==
  LET licenseStatus == ValidateLicenseKey(api)
  IN LicenseRejected(licenseStatus) \/ IsInvalidStatus(licenseStatus.status)

\* C28: for the same answer of the licensing API, verify-license reports
\* isValid = true for a key exactly when generate does not deny the key with
\* INVALID_LICENSE; an externally valid key of an unmapped variant is reported
\* isValid = false.
C28_RoutesAgree ==
  [][(/\ last'.op = "verify"
      /\ last'.body.json
      /\ last'.body.licenseKey.present
      /\ last'.body.licenseKey.text # ""
      /\ last'.fault = "none")
     => /\ last'.resp.isValid <=> ~GenerateDenies(last'.api)
        /\ (last'.lic.isValid /\ last'.lic.tier = None)
             => ~last'.resp.isValid]_vars

\* C29: a generate request that ends with a non-200 response leaves every
\* usage counter and every LicenseRecord as it was before the request.
C29_FailureChangesNothing ==
  [][(last'.op = "generate" /\ last'.resp.status # 200)
     => UNCHANGED <<usage, registry>>]_vars

\* C30: a generate request that carries no license key never changes the
\* usage counter charged to a license key, whatever client-IP header value
\* it supplies.
C30_KeylessLeavesLicenseCounters ==
  [][(last'.op = "generate" /\ last'.licenseKey = None)
     => CountOf(usage', LicenseKeyK) = CountOf(usage, LicenseKeyK)]_vars

====
